---- MODULE Spec2Model ----
(***************************************************************************)
(* A model of the HTTP-trigger-to-ASGI bridge of server/function_app.py:   *)
(* the lazy lifespan handshake (initialize_mcp_app), the request handler   *)
(* (mcp_endpoint) with its receive/send callbacks, the bounded wait for    *)
(* the response and the cancellation of the request's ASGI task.           *)
(* The tools of server/task_manager_streamable_http.py that write the      *)
(* shared tasks.csv (add_task, update_task, delete_task) are modelled      *)
(* beside it, as a specification of their own (ToolSpec).                  *)
(*                                                                         *)
(* One event loop runs every task, so an action is the code a task runs    *)
(* between two suspension points.  The inner ASGI application (FastMCP) is *)
(* an external collaborator: its moves (calling receive, calling send,     *)
(* returning, raising, acknowledging a cancellation) are nondeterministic. *)
(* Time is abstracted: a timer of asyncio.wait_for may fire at any moment  *)
(* at which the event it guards has not been set.                          *)
(*                                                                         *)
(* Python str values that are only ever compared with literals (methods,   *)
(* ASGI message types) are TLA+ strings.  str and bytes values that are    *)
(* encoded, decoded, concatenated or searched are sequences of code points *)
(* and sequences of bytes.                                                 *)
(***************************************************************************)
EXTENDS Integers, Sequences, FiniteSets, TLC

(***************************************************************************)
(* Bounds of the model.                                                    *)
(***************************************************************************)
\* invocations of mcp_endpoint in one process
NReq == 2
\* calls of the bridge's callbacks (lifespan_receive, lifespan_send, receive,
\* send) that the inner application makes in one run of the process
MaxCalls == 4

ReqIds == 1..NReq

\* concurrent callers of the task manager's tools (function instances that
\* share the store)
NCallers == 2
\* add_task calls started in one run
MaxAdds == 3

CallerIds == 1..NCallers

(***************************************************************************)
(* Text of the source, as code points.                                     *)
(***************************************************************************)
\* "Access-Control-Allow-Origin"
ACAO == <<65, 99, 99, 101, 115, 115, 45, 67, 111, 110, 116, 114, 111, 108, 45, 65, 108, 108, 111, 119, 45, 79, 114, 105, 103, 105, 110>>
\* "Access-Control-Allow-Methods"
ACAM == <<65, 99, 99, 101, 115, 115, 45, 67, 111, 110, 116, 114, 111, 108, 45, 65, 108, 108, 111, 119, 45, 77, 101, 116, 104, 111, 100, 115>>
\* "Access-Control-Allow-Headers"
ACAH == <<65, 99, 99, 101, 115, 115, 45, 67, 111, 110, 116, 114, 111, 108, 45, 65, 108, 108, 111, 119, 45, 72, 101, 97, 100, 101, 114, 115>>
\* "*"
Star == <<42>>
\* "GET, POST, OPTIONS"
AllowMethodsValue == <<71, 69, 84, 44, 32, 80, 79, 83, 84, 44, 32, 79, 80, 84, 73, 79, 78, 83>>
\* "Content-Type, Authorization"
AllowHeadersValue == <<67, 111, 110, 116, 101, 110, 116, 45, 84, 121, 112, 101, 44, 32, 65, 117, 116, 104, 111, 114, 105, 122, 97, 116, 105, 111, 110>>
\* "MCP server not initialized"
NotInitializedText == <<77, 67, 80, 32, 115, 101, 114, 118, 101, 114, 32, 110, 111, 116, 32, 105, 110, 105, 116, 105, 97, 108, 105, 122, 101, 100>>
\* "MCP lifespan startup timed out"
StartupTimedOutText == <<77, 67, 80, 32, 108, 105, 102, 101, 115, 112, 97, 110, 32, 115, 116, 97, 114, 116, 117, 112, 32, 116, 105, 109, 101, 100, 32, 111, 117, 116>>
\* "MCP lifespan startup failed: "
StartupFailedPrefix == <<77, 67, 80, 32, 108, 105, 102, 101, 115, 112, 97, 110, 32, 115, 116, 97, 114, 116, 117, 112, 32, 102, 97, 105, 108, 101, 100, 58, 32>>
\* "Unknown error"
UnknownErrorText == <<85, 110, 107, 110, 111, 119, 110, 32, 101, 114, 114, 111, 114>>
\* "Error: "
ErrorPrefix == <<69, 114, 114, 111, 114, 58, 32>>
\* "timed out"
TimedOutWords == <<116, 105, 109, 101, 100, 32, 111, 117, 116>>

(***************************************************************************)
(* Values supplied by the environment: str(e) of the exceptions that the   *)
(* Python runtime and the inner application raise on the inputs below.     *)
(***************************************************************************)
\* "'utf-8' codec can't decode byte 0xe9 in position 0: unexpected end of data"
DecodeErrorText == <<39, 117, 116, 102, 45, 56, 39, 32, 99, 111, 100, 101, 99, 32, 99, 97, 110, 39, 116, 32, 100, 101, 99, 111, 100, 101, 32, 98, 121, 116, 101, 32, 48, 120, 101, 57, 32, 105, 110, 32, 112, 111, 115, 105, 116, 105, 111, 110, 32, 48, 58, 32, 117, 110, 101, 120, 112, 101, 99, 116, 101, 100, 32, 101, 110, 100, 32, 111, 102, 32, 100, 97, 116, 97>>
\* "'latin-1' codec can't encode character '€' in position 0: ordinal not in range(256)"
EncodeErrorText == <<39, 108, 97, 116, 105, 110, 45, 49, 39, 32, 99, 111, 100, 101, 99, 32, 99, 97, 110, 39, 116, 32, 101, 110, 99, 111, 100, 101, 32, 99, 104, 97, 114, 97, 99, 116, 101, 114, 32, 39, 92, 117, 50, 48, 97, 99, 39, 32, 105, 110, 32, 112, 111, 115, 105, 116, 105, 111, 110, 32, 48, 58, 32, 111, 114, 100, 105, 110, 97, 108, 32, 110, 111, 116, 32, 105, 110, 32, 114, 97, 110, 103, 101, 40, 50, 53, 54, 41>>
\* "boom": the message of an exception raised by the inner application
AppErrorText == <<98, 111, 111, 109>>
\* "db down": the reason carried by a lifespan.startup.failed message
FailedReasonText == <<100, 98, 32, 100, 111, 119, 110>>

(***************************************************************************)
(* Codecs.  A failed conversion is the value CodecError.                   *)
(***************************************************************************)
CodecError == <<-1>>

IsContinuation(b) == b >= 128 /\ b <= 191

\* bytes.decode(): strict UTF-8
RECURSIVE Utf8Decode(_)
Utf8Decode(bs) ==
    IF bs = <<>> THEN <<>>
    ELSE LET b1 == bs[1]
             n  == IF b1 < 128 THEN 1
                   ELSE IF b1 >= 194 /\ b1 <= 223 THEN 2
                   ELSE IF b1 >= 224 /\ b1 <= 239 THEN 3
                   ELSE IF b1 >= 240 /\ b1 <= 244 THEN 4
                   ELSE 0
         IN IF n = 0 \/ Len(bs) < n THEN CodecError
            ELSE IF \E i \in 2..n : ~IsContinuation(bs[i]) THEN CodecError
            ELSE LET cp == IF n = 1 THEN b1
                           ELSE IF n = 2 THEN (b1 - 192) * 64 + (bs[2] - 128)
                           ELSE IF n = 3 THEN (b1 - 224) * 4096 + (bs[2] - 128) * 64 + (bs[3] - 128)
                           ELSE (b1 - 240) * 262144 + (bs[2] - 128) * 4096
                                + (bs[3] - 128) * 64 + (bs[4] - 128)
                     bad == \/ n = 3 /\ cp < 2048
                            \/ n = 3 /\ cp >= 55296 /\ cp <= 57343
                            \/ n = 4 /\ (cp < 65536 \/ cp > 1114111)
                 \* the remaining bytes t and their decoding rest are bound
                 \* as values, so that each is computed once
                 IN IF bad THEN CodecError
                    ELSE CHOOSE out \in
                           { IF rest = CodecError THEN CodecError ELSE <<cp>> \o rest :
                               rest \in { Utf8Decode(t) :
                                            t \in {SubSeq(bs, n + 1, Len(bs))} } } : TRUE

\* the UTF-8 bytes of one code point
Utf8Bytes(cp) ==
    IF cp < 128 THEN <<cp>>
    ELSE IF cp < 2048 THEN <<192 + (cp \div 64), 128 + (cp % 64)>>
    ELSE IF cp < 65536
         THEN <<224 + (cp \div 4096), 128 + ((cp \div 64) % 64), 128 + (cp % 64)>>
    ELSE <<240 + (cp \div 262144), 128 + ((cp \div 4096) % 64),
           128 + ((cp \div 64) % 64), 128 + (cp % 64)>>

\* str.encode() of an HttpResponse body given as str: UTF-8, the bytes of the
\* code points in order (the text is encoded by halves, each bound as a
\* value, to keep the evaluation shallow)
RECURSIVE Utf8Encode(_)
Utf8Encode(s) ==
    IF s = <<>> THEN <<>>
    ELSE IF Len(s) = 1 THEN Utf8Bytes(s[1])
    ELSE CHOOSE out \in
           { Utf8Encode(front) \o Utf8Encode(back) :
               front \in {SubSeq(s, 1, Len(s) \div 2)},
               back \in {SubSeq(s, (Len(s) \div 2) + 1, Len(s))} } : TRUE

\* str.encode('latin-1')
Latin1Encode(s) ==
    IF \E i \in 1..Len(s) : s[i] > 255 THEN CodecError ELSE s

\* url.split("?", 1)[1] if "?" in url, as code points; <<-2>> when "?" is absent
NoQuery == <<-2>>

AfterFirstQuestionMark(url) ==
    IF \E i \in 1..Len(url) : url[i] = 63
    THEN LET i == CHOOSE j \in 1..Len(url) :
                      url[j] = 63 /\ \A k \in 1..(j - 1) : url[k] # 63
         IN SubSeq(url, i + 1, Len(url))
    ELSE NoQuery

\* the "query_string" entry of the scope
QueryString(url) ==
    IF AfterFirstQuestionMark(url) = NoQuery THEN <<>>
    ELSE Latin1Encode(AfterFirstQuestionMark(url))

\* sub in s, for str
Contains(s, sub) ==
    \E i \in 0..(Len(s) - Len(sub)) : SubSeq(s, i + 1, i + Len(sub)) = sub

(***************************************************************************)
(* Values.                                                                 *)
(***************************************************************************)
None == "None"

\* a dict of str to str: a function; d[k] = v overrides
DictSet(d, k, v) == [x \in (DOMAIN d) \cup {k} |-> IF x = k THEN v ELSE d[x]]

EmptyDict == [x \in {} |-> <<>>]

\* func.HttpResponse(body, status_code=, headers=): a str body is sent UTF-8 encoded
HttpResponse(body, status_code, headers) ==
    [status_code |-> status_code, headers |-> headers, body |-> body]

NoResponse == HttpResponse(<<>>, 0, EmptyDict)

\* what an invocation of mcp_endpoint ended with
NoResult == [kind |-> "none", exc |-> <<>>, response |-> NoResponse]

Returned(resp) == [kind |-> "response", exc |-> <<>>, response |-> resp]

Raised(text) == [kind |-> "raised", exc |-> text, response |-> NoResponse]

\* the reply to a CORS preflight
PreflightResponse ==
    HttpResponse(<<>>, 200,
                 (ACAO :> Star) @@ (ACAM :> AllowMethodsValue) @@ (ACAH :> AllowHeadersValue))

\* a slip: the response of a failed import carries no CORS header
NotInitializedResponse_WithoutCors ==
    HttpResponse(Utf8Encode(NotInitializedText), 500, EmptyDict)

\* the reply when the import of the MCP server failed
NotInitializedResponse ==
    HttpResponse(Utf8Encode(NotInitializedText), 500, (ACAO :> Star))

\* the reply of the except clause of mcp_endpoint, for str(e) = text
ErrorResponse(text) ==
    HttpResponse(Utf8Encode(ErrorPrefix \o text), 500, (ACAO :> Star))

(***************************************************************************)
(* Inputs.                                                                 *)
(***************************************************************************)
\* "/mcp"
UrlPlain == <<47, 109, 99, 112>>
\* "/mcp?a"
UrlQuery == <<47, 109, 99, 112, 63, 97>>
\* "/mcp?€": a query that latin-1 cannot encode
UrlNonLatin1 == <<47, 109, 99, 112, 63, 8364>>

\* the requests the host may hand to the r-th invocation of mcp_endpoint; the
\* bridge looks at no byte of a body, and each invocation has a body of its own
Requests(r) ==
    { [method |-> "OPTIONS", url |-> UrlPlain,     body |-> <<>>],
      [method |-> "POST",    url |-> UrlQuery,     body |-> <<123, 48 + r, 125>>],
      [method |-> "GET",     url |-> UrlNonLatin1, body |-> <<>>] }

NoRequest == [method |-> "", url |-> <<>>, body |-> <<>>]

\* the http.response.start messages of the inner application: a status and a
\* list of (name, value) byte pairs
StartMessages ==
    { [status |-> 200, headers |-> <<>>],
      \* content-type: application/json
      [status |-> 404, headers |->
          << <<(<<99, 111, 110, 116, 101, 110, 116, 45, 116, 121, 112, 101>>),
               (<<97, 112, 112, 108, 105, 99, 97, 116, 105, 111, 110, 47, 106, 115, 111, 110>>)>> >>],
      \* Access-Control-Allow-Origin: a
      [status |-> 200, headers |-> << <<ACAO, <<97>> >> >>],
      \* x: a value that is not UTF-8 (latin-1 e-acute)
      [status |-> 404, headers |-> << << <<120>>, <<233>> >> >>] }

\* the http.response.body messages of the inner application; the bridge looks
\* at no byte of a chunk, only at whether it is empty
BodyMessages ==
    { [body |-> <<104>>, more_body |-> TRUE],
      [body |-> <<105>>, more_body |-> FALSE],
      [body |-> <<>>,    more_body |-> FALSE] }

\* the messages the inner application passes to lifespan_send
LifespanMessages ==
    { [type |-> "lifespan.startup.complete", has_message |-> FALSE, message |-> <<>>],
      [type |-> "lifespan.startup.failed",   has_message |-> TRUE,  message |-> FailedReasonText],
      [type |-> "lifespan.startup.failed",   has_message |-> FALSE, message |-> <<>>] }

(***************************************************************************)
(* State.                                                                  *)
(***************************************************************************)
VARIABLES
    mcp,            \* the imported FastMCP instance, or None when the import failed
    mcp_asgi_app,   \* NoApp, or the raw_app of the attempt that succeeded
    mcp_init_lock,  \* NoLock, or the asyncio.Lock
    lifespan_task,  \* NoTask, or the attempt whose run_lifespan task was created last
    lifespans,      \* the runs of initialize_mcp_app, in order: locals and task
    call,           \* the invocations of mcp_endpoint: locals, task and result
    calls,          \* history: the callback calls the inner application has made
    blob_client,    \* task manager: whether the blob client was initialised
    tasks_csv,      \* task manager: the stored tasks.csv (blob, or local file)
    tool,           \* task manager: the tool calls in progress, one per caller
    adds            \* history: the add_task calls that were started

\* the state of the bridge (function_app.py)
bridgeVars == <<mcp, mcp_asgi_app, mcp_init_lock, lifespan_task, lifespans, call, calls>>

\* the state of the task manager (task_manager_streamable_http.py)
toolVars == <<blob_client, tasks_csv, tool, adds>>

vars == <<bridgeVars, toolVars>>

\* mcp_asgi_app = None, lifespan_task = None: no attempt (attempts count from 1)
NoApp == 0

NoTask == 0

\* mcp_init_lock = None
NoLock == [created |-> FALSE, locked |-> FALSE, waiters |-> <<>>]

\* asyncio.Lock(): unlocked, no waiter
NewLock == [created |-> TRUE, locked |-> FALSE, waiters |-> <<>>]

\* the locals of a run of initialize_mcp_app for request r; raw_app = mcp.http_app()
NewLifespan(r, raw_app) ==
    [ by                |-> r,
      raw_app           |-> raw_app,
      startup_complete  |-> FALSE,
      startup_failed    |-> FALSE,
      startup_error     |-> <<>>,
      received_startup  |-> FALSE,
      task              |-> "running",
      \* history: the lifespan.startup messages lifespan_receive returned, how
      \* the attempt ended, and whether the application has passed a
      \* lifespan.startup.complete, a lifespan.startup.failed to lifespan_send
      startups          |-> 0,
      outcome           |-> "pending",
      complete_sent     |-> FALSE,
      failed_sent       |-> FALSE ]

\* a slip: the status before any start message is that of the error response
DefaultStatus_ServerError == ErrorResponse(<<>>).status_code

\* response_status = 200, before any start message
DefaultStatus == 200

\* an invocation that has not been made yet
NewCall ==
    [ pc                |-> "idle",
      req               |-> NoRequest,
      attempt           |-> 0,
      response_started  |-> FALSE,
      response_status   |-> DefaultStatus,
      response_headers  |-> <<>>,
      response_body     |-> <<>>,
      response_complete |-> FALSE,
      receive_called    |-> FALSE,
      asgi_task         |-> "none",
      expired           |-> FALSE,
      result            |-> NoResult,
      \* history: whether the request waited for the lock and found the
      \* handshake done when it was given the lock, the status (0: none) and
      \* the headers of the start message passed to send, the body messages
      \* passed to send, the events receive returned, and the number of body
      \* messages sent when the deadline fired (-1: it has not fired)
      waited            |-> FALSE,
      start_status      |-> 0,
      start_headers     |-> <<>>,
      sent              |-> <<>>,
      received          |-> <<>>,
      sent_at_expiry    |-> -1 ]

(***************************************************************************)
(* The task manager (task_manager_streamable_http.py): values.             *)
(***************************************************************************)
\* str(n) for an id, as code points
RECURSIVE IntToStr(_)
IntToStr(n) ==
    IF n < 10 THEN <<48 + n>> ELSE IntToStr(n \div 10) \o <<48 + (n % 10)>>

\* int(s) for the "id" column
RECURSIVE StrToInt(_)
StrToInt(s) ==
    IF Len(s) = 1 THEN s[1] - 48
    ELSE StrToInt(SubSeq(s, 1, Len(s) - 1)) * 10 + (s[Len(s)] - 48)

\* the row writer.writerow writes for a task: every column is text
WriteRow(task) ==
    [ id          |-> IntToStr(task.id),
      description |-> task.description,
      tag         |-> task.tag,
      status      |-> task.status,
      created_at  |-> task.created_at,
      due_date    |-> task.due_date ]

\* dict(row, id=int(row["id"])) for a row of the DictReader
ReadRow(row) == [row EXCEPT !.id = StrToInt(row.id)]

\* tasks.csv does not exist
NoCsv == [exists |-> FALSE, rows |-> <<>>]

\* the CSV that write_tasks stores for a list of tasks: a header and one row
\* per task, in order
CsvOf(tasks) == [exists |-> TRUE, rows |-> [i \in 1..Len(tasks) |-> WriteRow(tasks[i])]]

\* the list read_tasks returns when the download (or the file) is read
TasksOf(csv) == [i \in 1..Len(csv.rows) |-> ReadRow(csv.rows[i])]

\* no task
NoTaskDict ==
    [id |-> 0, description |-> "", tag |-> "", status |-> "", created_at |-> "", due_date |-> ""]

\* no arguments
NoArgs == [task_id |-> 0, description |-> "", tag |-> "", due_date |-> "", status |-> ""]

\* a caller that runs no tool
IdleTool ==
    [ pc       |-> "idle",
      args     |-> NoArgs,
      tasks    |-> <<>>,
      task     |-> NoTaskDict,
      \* history: the store when an add_task call began; how the last call
      \* ended ("", "returned", "raised") and the task it returned
      before   |-> NoCsv,
      ended    |-> "",
      returned |-> NoTaskDict ]

Init ==
    /\ mcp \in {"mcp_instance", None}
    /\ mcp_asgi_app = NoApp
    /\ mcp_init_lock = NoLock
    /\ lifespan_task = NoTask
    /\ lifespans = <<>>
    /\ call = [r \in ReqIds |-> NewCall]
    /\ calls = 0
    /\ blob_client = TRUE
    /\ tasks_csv = NoCsv
    /\ tool = [c \in CallerIds |-> IdleTool]
    /\ adds = 0


(***************************************************************************)
(* mcp_endpoint: the pieces of the handler.                                *)
(***************************************************************************)
\* the invocation ends with this result; its locals are gone
Finish(c, result) ==
    [NewCall EXCEPT !.pc = "done", !.req = c.req, !.attempt = c.attempt, !.result = result]

\* the try block up to its first suspension: the scope is built, the
\* request-scoped locals are created, the ASGI task is created and the handler
\* awaits response_complete; a fault of the scope goes to the except clause
EnterTry(c) ==
    IF QueryString(c.req.url) = CodecError
    THEN Finish(c, Returned(ErrorResponse(EncodeErrorText)))
    ELSE [c EXCEPT !.pc = "resp_wait",
                   !.response_started = FALSE,
                   !.response_status = DefaultStatus,
                   !.response_headers = <<>>,
                   !.response_body = <<>>,
                   !.response_complete = FALSE,
                   !.receive_called = FALSE,
                   !.asgi_task = "running"]

\* every name and value of the collected headers decodes
HeadersDecode(hs) ==
    \A i \in 1..Len(hs) :
        Utf8Decode(hs[i][1]) # CodecError /\ Utf8Decode(hs[i][2]) # CodecError

\* headers_dict after the loop over response_headers
RECURSIVE MergeHeaders(_, _)
MergeHeaders(headers_dict, hs) ==
    IF hs = <<>> THEN headers_dict
    ELSE MergeHeaders(DictSet(headers_dict, Utf8Decode(hs[1][1]), Utf8Decode(hs[1][2])),
                      Tail(hs))

\* the tail of the try block: the collected response becomes the HttpResponse;
\* a header that does not decode goes to the except clause
BuildResponse(c) ==
    IF HeadersDecode(c.response_headers)
    THEN HttpResponse(c.response_body, c.response_status,
                      MergeHeaders((ACAO :> Star), c.response_headers))
    ELSE ErrorResponse(DecodeErrorText)

\* async with mcp_init_lock, on entry
Acquired(lock) == [lock EXCEPT !.locked = TRUE]

\* a slip: acquire() without a release
Released_Forgotten(lock) == lock

\* a slip: acquire() and release() in place of async with: an exception of the
\* handshake skips the release
Released_UnlessRaised(lock) ==
    IF /\ lock.locked
       /\ lifespan_task # NoTask
       /\ \/ ~lifespans[lifespan_task].startup_complete
          \/ lifespans[lifespan_task].startup_failed
    THEN lock
    ELSE [lock EXCEPT !.locked = FALSE]

\* async with mcp_init_lock, on exit (normal or by exception)
Released(lock) == [lock EXCEPT !.locked = FALSE]

\* a slip: the lock is taken whether or not it is held
LockIsFree_Always(lock) == TRUE

\* Lock.acquire() takes the lock at once: unlocked and nobody waiting
LockIsFree(lock) == ~lock.locked /\ lock.waiters = <<>>

\* initialize_mcp_app up to its suspension in wait_for, run by request r
\* under the lock: a new raw_app, a new lifespan task
StartInitialize(r, c, lock) ==
    /\ lifespans' = Append(lifespans, NewLifespan(r, Len(lifespans) + 1))
    /\ lifespan_task' = Len(lifespans) + 1
    /\ mcp_init_lock' = Acquired(lock)
    /\ call' = [call EXCEPT ![r] = [c EXCEPT !.pc = "init_wait",
                                             !.attempt = Len(lifespans) + 1]]
    /\ UNCHANGED <<toolVars, mcp, mcp_asgi_app, calls>>

(***************************************************************************)
(* mcp_endpoint: the steps of an invocation.                               *)
(***************************************************************************)
\* a slip: the method is compared with its lower-case spelling
IsPreflight_LowerCase(q) == q.method = "options"

\* if req.method == "OPTIONS"
IsPreflight(q) == q.method = "OPTIONS"

\* a slip: the handshake is never found missing
FirstCheck_Skipped == FALSE

\* if mcp_asgi_app is None, before the lock
FirstCheck == mcp_asgi_app = NoApp

\* a slip: the check under the lock is left out
DoubleCheck_Omitted == TRUE

\* if mcp_asgi_app is None, under the lock
DoubleCheck == mcp_asgi_app = NoApp

\* the host invokes mcp_endpoint(req); requests are numbered in arrival order
Arrive(r) ==
    /\ call[r].pc = "idle"
    /\ r > 1 => call[r - 1].pc # "idle"
    /\ \E q \in Requests(r) :
        LET c == [call[r] EXCEPT !.req = q]
            lock == IF mcp_init_lock.created THEN mcp_init_lock ELSE NewLock
        IN  IF IsPreflight(q)
            THEN /\ call' = [call EXCEPT ![r] = Finish(c, Returned(PreflightResponse))]
                 /\ UNCHANGED <<toolVars, mcp, mcp_asgi_app, mcp_init_lock, lifespan_task, lifespans, calls>>
            ELSE IF mcp = None
            THEN /\ call' = [call EXCEPT ![r] = Finish(c, Returned(NotInitializedResponse))]
                 /\ UNCHANGED <<toolVars, mcp, mcp_asgi_app, mcp_init_lock, lifespan_task, lifespans, calls>>
            ELSE IF ~FirstCheck
            THEN /\ call' = [call EXCEPT ![r] = EnterTry(c)]
                 /\ UNCHANGED <<toolVars, mcp, mcp_asgi_app, mcp_init_lock, lifespan_task, lifespans, calls>>
            ELSE IF LockIsFree(lock) /\ DoubleCheck
            THEN StartInitialize(r, c, lock)
            ELSE IF LockIsFree(lock)
            THEN /\ mcp_init_lock' = Released(Acquired(lock))
                 /\ call' = [call EXCEPT ![r] = EnterTry(c)]
                 /\ UNCHANGED <<toolVars, mcp, mcp_asgi_app, lifespan_task, lifespans, calls>>
            ELSE /\ mcp_init_lock' = [lock EXCEPT !.waiters = Append(@, r)]
                 /\ call' = [call EXCEPT ![r] = [c EXCEPT !.pc = "lock_wait"]]
                 /\ UNCHANGED <<toolVars, mcp, mcp_asgi_app, lifespan_task, lifespans, calls>>

\* a waiter is given the lock: the double check, then the handshake or the try block
AcquireLock(r) ==
    /\ call[r].pc = "lock_wait"
    /\ ~mcp_init_lock.locked
    /\ mcp_init_lock.waiters # <<>>
    /\ Head(mcp_init_lock.waiters) = r
    /\ LET lock == [mcp_init_lock EXCEPT !.waiters = Tail(@)]
       IN  IF DoubleCheck
           THEN StartInitialize(r, call[r], lock)
           ELSE /\ mcp_init_lock' = Released(Acquired(lock))
                /\ call' = [call EXCEPT ![r] = EnterTry([call[r] EXCEPT !.waited = TRUE])]
                /\ UNCHANGED <<toolVars, mcp, mcp_asgi_app, lifespan_task, lifespans, calls>>

\* wait_for(startup_complete.wait()) returns: startup failed or done
InitResume(r) ==
    /\ call[r].pc = "init_wait"
    /\ lifespans[call[r].attempt].startup_complete
    /\ LET a == call[r].attempt
           l == lifespans[a]
       IN  IF l.startup_failed
           THEN /\ call' = [call EXCEPT ![r] =
                       Finish(call[r], Raised(StartupFailedPrefix \o l.startup_error))]
                /\ lifespans' = [lifespans EXCEPT ![a].outcome = "failed"]
                /\ mcp_init_lock' = Released(mcp_init_lock)
                /\ UNCHANGED <<toolVars, mcp, mcp_asgi_app, lifespan_task, calls>>
           ELSE /\ mcp_asgi_app' = l.raw_app
                /\ call' = [call EXCEPT ![r] = EnterTry(call[r])]
                /\ lifespans' = [lifespans EXCEPT ![a].outcome = "ready"]
                /\ mcp_init_lock' = Released(mcp_init_lock)
                /\ UNCHANGED <<toolVars, mcp, lifespan_task, calls>>

\* wait_for(startup_complete.wait(), timeout=10.0) times out
InitTimeout(r) ==
    /\ call[r].pc = "init_wait"
    /\ ~lifespans[call[r].attempt].startup_complete
    /\ call' = [call EXCEPT ![r] = Finish(call[r], Raised(StartupTimedOutText))]
    /\ lifespans' = [lifespans EXCEPT ![call[r].attempt].outcome = "timed_out"]
    /\ mcp_init_lock' = Released(mcp_init_lock)
    /\ UNCHANGED <<toolVars, mcp, mcp_asgi_app, lifespan_task, calls>>


(***************************************************************************)
(* The lifespan task of an attempt: run_lifespan drives raw_app, which     *)
(* calls lifespan_receive and lifespan_send as it pleases.                 *)
(***************************************************************************)
\* a slip: received_startup is not consulted
lifespan_receive_EveryTime(l) ==
    [l EXCEPT !.received_startup = TRUE, !.startups = @ + 1]

\* lifespan_receive(): lifespan.startup once, then a wait that never ends
lifespan_receive(l) ==
    IF ~l.received_startup
    THEN [l EXCEPT !.received_startup = TRUE, !.startups = @ + 1]
    ELSE [l EXCEPT !.task = "waiting"]

\* a slip: lifespan.startup.failed sets the event and not the flag
lifespan_send_FailedUnflagged(l, message) ==
    IF message.type \in {"lifespan.startup.complete", "lifespan.startup.failed"}
    THEN [l EXCEPT !.startup_complete = TRUE]
    ELSE l

\* lifespan_send(message)
lifespan_send(l, message) ==
    IF message.type = "lifespan.startup.complete"
    THEN [l EXCEPT !.startup_complete = TRUE]
    ELSE IF message.type = "lifespan.startup.failed"
    THEN [l EXCEPT !.startup_failed = TRUE,
                   !.startup_error = IF message.has_message THEN message.message
                                     ELSE UnknownErrorText,
                   !.startup_complete = TRUE]
    ELSE l

\* raw_app awaits lifespan_receive()
LifespanReceive(a) ==
    /\ lifespans[a].task = "running"
    /\ calls < MaxCalls
    /\ calls' = calls + 1
    /\ lifespans' = [lifespans EXCEPT ![a] = lifespan_receive(lifespans[a])]
    /\ UNCHANGED <<toolVars, mcp, mcp_asgi_app, mcp_init_lock, lifespan_task, call>>

\* raw_app awaits lifespan_send(message)
LifespanSend(a) ==
    /\ lifespans[a].task = "running"
    /\ calls < MaxCalls
    /\ calls' = calls + 1
    /\ \E message \in LifespanMessages :
         lifespans' = [lifespans EXCEPT ![a] =
             [lifespan_send(lifespans[a], message) EXCEPT
                 !.complete_sent = @ \/ message.type = "lifespan.startup.complete",
                 !.failed_sent = @ \/ message.type = "lifespan.startup.failed"]]
    /\ UNCHANGED <<toolVars, mcp, mcp_asgi_app, mcp_init_lock, lifespan_task, call>>

\* raw_app returns, or raises and run_lifespan logs the exception
LifespanExit(a) ==
    /\ lifespans[a].task = "running"
    /\ lifespans' = [lifespans EXCEPT ![a].task = "done"]
    /\ UNCHANGED <<toolVars, mcp, mcp_asgi_app, mcp_init_lock, lifespan_task, call, calls>>

(***************************************************************************)
(* The ASGI task of a request: run_asgi drives mcp_asgi_app, which calls   *)
(* receive and send as it pleases, starts its response at most once and    *)
(* before any body message, and ends by returning, by raising or, once     *)
(* cancelled, by letting the CancelledError through.                       *)
(***************************************************************************)
\* a slip: a task that was asked to cancel counts as ended
AppRuns_UntilCancel(c) == c.asgi_task = "running"

\* not asgi_task.done()
AppRuns(c) == c.asgi_task \in {"running", "cancelling"}

\* a slip: receive_called is not consulted
receive_BodyEveryTime(c) ==
    [type |-> "http.request", body |-> c.req.body, more_body |-> FALSE]

\* a slip: body is a name of the module, bound anew by each invocation
receive_LatestBody(c) ==
    IF ~c.receive_called
    THEN [type |-> "http.request",
          body |-> call[CHOOSE s \in ReqIds :
                          /\ call[s].pc # "idle"
                          /\ \A t \in ReqIds : call[t].pc # "idle" => t <= s].req.body,
          more_body |-> FALSE]
    ELSE [type |-> "http.disconnect", body |-> <<>>, more_body |-> FALSE]

\* receive(): the event it returns
receive(c) ==
    IF ~c.receive_called
    THEN [type |-> "http.request", body |-> c.req.body, more_body |-> FALSE]
    ELSE [type |-> "http.disconnect", body |-> <<>>, more_body |-> FALSE]

\* a slip: the status of the start message is dropped
send_start_StatusDropped(c, status, headers) ==
    [c EXCEPT !.response_started = TRUE,
              !.response_headers = headers]

\* send(message) for an http.response.start message
send_start(c, status, headers) ==
    [c EXCEPT !.response_started = TRUE,
              !.response_status = status,
              !.response_headers = headers]

\* send(message) for an http.response.body message
send_body(c, body, more_body) ==
    [c EXCEPT !.response_body = IF body # <<>> THEN @ \o body ELSE @,
              !.response_complete = IF ~more_body THEN TRUE ELSE @]

AppReceive(r) ==
    /\ AppRuns(call[r])
    /\ calls < MaxCalls
    /\ calls' = calls + 1
    /\ call' = [call EXCEPT ![r] = [call[r] EXCEPT !.receive_called = TRUE,
                                                  !.received = Append(@, receive(call[r]))]]
    /\ UNCHANGED <<toolVars, mcp, mcp_asgi_app, mcp_init_lock, lifespan_task, lifespans>>

AppSendStart(r) ==
    /\ AppRuns(call[r])
    /\ ~call[r].response_started
    /\ calls < MaxCalls
    /\ calls' = calls + 1
    /\ \E m \in StartMessages :
         call' = [call EXCEPT ![r] =
                     [send_start(call[r], m.status, m.headers) EXCEPT
                          !.start_status = m.status, !.start_headers = m.headers]]
    /\ UNCHANGED <<toolVars, mcp, mcp_asgi_app, mcp_init_lock, lifespan_task, lifespans>>

AppSendBody(r) ==
    /\ AppRuns(call[r])
    /\ call[r].response_started
    /\ calls < MaxCalls
    /\ calls' = calls + 1
    /\ \E m \in BodyMessages :
         call' = [call EXCEPT ![r] =
                     [send_body(call[r], m.body, m.more_body) EXCEPT !.sent = Append(@, m)]]
    /\ UNCHANGED <<toolVars, mcp, mcp_asgi_app, mcp_init_lock, lifespan_task, lifespans>>

\* a slip: the end of run_asgi signals response_complete (a done callback)
AppExit_SignalsCompletion(r) ==
    /\ AppRuns(call[r])
    /\ \E how \in {"returned", "raised", "cancelled"} :
         /\ how = "cancelled" => call[r].asgi_task = "cancelling"
         /\ call' = [call EXCEPT ![r].asgi_task = how, ![r].response_complete = TRUE]
    /\ UNCHANGED <<toolVars, mcp, mcp_asgi_app, mcp_init_lock, lifespan_task, lifespans, calls>>

\* mcp_asgi_app returns, raises, or (cancelled) lets the CancelledError through
AppExit(r) ==
    /\ AppRuns(call[r])
    /\ \E how \in {"returned", "raised", "cancelled"} :
         /\ how = "cancelled" => call[r].asgi_task = "cancelling"
         /\ call' = [call EXCEPT ![r].asgi_task = how]
    /\ UNCHANGED <<toolVars, mcp, mcp_asgi_app, mcp_init_lock, lifespan_task, lifespans, calls>>

(***************************************************************************)
(* mcp_endpoint: the bounded wait, the cancellation and the response.      *)
(***************************************************************************)
\* the 30 s timer of wait_for(response_complete.wait()) fires
DeadlineFires(r) ==
    /\ call[r].pc = "resp_wait"
    /\ ~call[r].response_complete
    /\ ~call[r].expired
    /\ call' = [call EXCEPT ![r] = [call[r] EXCEPT !.expired = TRUE,
                                                  !.sent_at_expiry = Len(call[r].sent)]]
    /\ UNCHANGED <<toolVars, mcp, mcp_asgi_app, mcp_init_lock, lifespan_task, lifespans, calls>>

\* the handler resumes after wait_for: it cancels a task that is not done and
\* awaits it, or goes on to build the response
RespResume(r) ==
    /\ call[r].pc = "resp_wait"
    /\ call[r].response_complete \/ call[r].expired
    /\ call' = [call EXCEPT ![r] =
                  IF call[r].asgi_task = "running"
                  THEN [call[r] EXCEPT !.asgi_task = "cancelling", !.pc = "join"]
                  ELSE Finish(call[r], Returned(BuildResponse(call[r])))]
    /\ UNCHANGED <<toolVars, mcp, mcp_asgi_app, mcp_init_lock, lifespan_task, lifespans, calls>>

\* await asgi_task returns: CancelledError is passed over, another exception of
\* the task goes to the except clause
JoinResume(r) ==
    /\ call[r].pc = "join"
    /\ ~AppRuns(call[r])
    /\ call' = [call EXCEPT ![r] =
                  IF call[r].asgi_task = "raised"
                  THEN Finish(call[r], Returned(ErrorResponse(AppErrorText)))
                  ELSE Finish(call[r], Returned(BuildResponse(call[r])))]
    /\ UNCHANGED <<toolVars, mcp, mcp_asgi_app, mcp_init_lock, lifespan_task, lifespans, calls>>

Next ==
    \/ \E r \in ReqIds : Arrive(r)
    \/ \E r \in ReqIds : AcquireLock(r)
    \/ \E r \in ReqIds : InitResume(r)
    \/ \E r \in ReqIds : InitTimeout(r)
    \/ \E a \in 1..Len(lifespans) : LifespanReceive(a)
    \/ \E a \in 1..Len(lifespans) : LifespanSend(a)
    \/ \E a \in 1..Len(lifespans) : LifespanExit(a)
    \/ \E r \in ReqIds : AppReceive(r)
    \/ \E r \in ReqIds : AppSendStart(r)
    \/ \E r \in ReqIds : AppSendBody(r)
    \/ \E r \in ReqIds : AppExit(r)
    \/ \E r \in ReqIds : DeadlineFires(r)
    \/ \E r \in ReqIds : RespResume(r)
    \/ \E r \in ReqIds : JoinResume(r)

Spec == Init /\ [][Next]_vars

\* the ASGI task of request r, asked to cancel, lets the CancelledError through
AcknowledgeCancel(r) == call[r].asgi_task = "cancelling" /\ AppExit(r)

\* The event loop runs every task that is ready and fires every timer that is
\* due: a handler whose await can return does return, the timers of the two
\* wait_for calls fire unless the awaited event is set first, and a cancelled
\* ASGI task ends.  Nothing obliges the host to send requests, nor the inner
\* application to call receive, send or the lifespan callbacks.
FairSpec ==
    /\ Spec
    /\ \A r \in ReqIds :
          /\ WF_vars(AcquireLock(r))
          /\ WF_vars(InitResume(r))
          /\ WF_vars(InitTimeout(r))
          /\ WF_vars(DeadlineFires(r))
          /\ WF_vars(RespResume(r))
          /\ WF_vars(JoinResume(r))
          /\ WF_vars(AcknowledgeCancel(r))


(***************************************************************************)
(* The task manager: the tools add_task, update_task and delete_task.  The *)
(* callers are function instances that share tasks.csv; a tool call is     *)
(* split at its storage operations, each of which is one step.             *)
(***************************************************************************)
\* whether a download may raise: only the blob branch catches an exception
ReadOutcomes == IF blob_client THEN {"ok", "error"} ELSE {"ok"}

\* whether an upload may raise: only the blob branch catches an exception
WriteOutcomes == IF blob_client THEN {"ok", "error"} ELSE {"ok"}

\* read_tasks(): the rows of the CSV; [] when the blob is absent or the
\* download raises, or when the local file does not exist
read_tasks(outcome) ==
    IF outcome = "ok" /\ tasks_csv.exists THEN TasksOf(tasks_csv) ELSE <<>>

\* write_tasks(tasks): the CSV stored afterwards; an upload that raises is
\* only printed
write_tasks(tasks, outcome) ==
    IF outcome = "ok" THEN CsvOf(tasks) ELSE tasks_csv

\* max(task["id"] for task in tasks)
MaxId(tasks) ==
    CHOOSE m \in {tasks[i].id : i \in 1..Len(tasks)} :
        \A i \in 1..Len(tasks) : tasks[i].id <= m

\* get_next_task_id(), on the list its own read_tasks() returned
get_next_task_id(tasks) ==
    IF tasks = <<>> THEN 1 ELSE MaxId(tasks) + 1

\* x or ""
OrEmpty(x) == IF x = None THEN "" ELSE x

\* the arguments of the add_task calls
AddArgs ==
    { [task_id |-> 0, description |-> "a", tag |-> None,   due_date |-> None,  status |-> ""],
      [task_id |-> 0, description |-> "b", tag |-> "work", due_date |-> "fri", status |-> ""] }

\* the arguments of the update_task calls
UpdateArgs ==
    { [task_id |-> i, description |-> None, tag |-> None, due_date |-> None,
       status |-> "completed"] : i \in 1..2 }

\* the arguments of the delete_task calls
DeleteArgs ==
    { [task_id |-> i, description |-> "", tag |-> "", due_date |-> "", status |-> ""] :
         i \in 1..2 }

\* some task of the list has this id
HasId(tasks, task_id) == \E i \in 1..Len(tasks) : tasks[i].id = task_id

\* the index of the first task with this id
IndexOf(tasks, task_id) ==
    CHOOSE i \in 1..Len(tasks) :
        tasks[i].id = task_id /\ \A j \in 1..(i - 1) : tasks[j].id # task_id

\* tasks.pop(i)
Pop(tasks, i) == SubSeq(tasks, 1, i - 1) \o SubSeq(tasks, i + 1, Len(tasks))

\* the fields update_task assigns: those that are not None
Updated(task, args) ==
    [task EXCEPT !.description = IF args.description # None THEN args.description ELSE @,
                 !.tag         = IF args.tag # None THEN args.tag ELSE @,
                 !.due_date    = IF args.due_date # None THEN args.due_date ELSE @,
                 !.status      = IF args.status # None THEN args.status ELSE @]

\* the call of caller c ends: its locals are gone
ToolEnds(c, ended, task) ==
    tool' = [tool EXCEPT ![c] = [IdleTool EXCEPT !.ended = ended, !.returned = task]]

\* add_task: tasks = read_tasks()
AddRead(c) ==
    /\ tool[c].pc = "idle"
    /\ adds < MaxAdds
    /\ adds' = adds + 1
    /\ \E args \in AddArgs, outcome \in ReadOutcomes :
         tool' = [tool EXCEPT ![c] = [IdleTool EXCEPT !.pc = "add_id",
                                                      !.args = args,
                                                      !.tasks = read_tasks(outcome),
                                                      !.before = tasks_csv]]
    /\ UNCHANGED <<bridgeVars, blob_client, tasks_csv>>

\* add_task: task_id = get_next_task_id(), then the task is built and appended
AddNextId(c) ==
    /\ tool[c].pc = "add_id"
    /\ \E outcome \in ReadOutcomes :
         LET task == [ id          |-> get_next_task_id(read_tasks(outcome)),
                       description |-> tool[c].args.description,
                       tag         |-> OrEmpty(tool[c].args.tag),
                       status      |-> "pending",
                       created_at  |-> "now",
                       due_date    |-> OrEmpty(tool[c].args.due_date) ]
         IN tool' = [tool EXCEPT ![c] = [tool[c] EXCEPT !.pc = "add_write",
                                                       !.task = task,
                                                       !.tasks = Append(tool[c].tasks, task)]]
    /\ UNCHANGED <<bridgeVars, blob_client, tasks_csv, adds>>

\* add_task: write_tasks(tasks); return task
AddWrite(c) ==
    /\ tool[c].pc = "add_write"
    /\ \E outcome \in WriteOutcomes :
         tasks_csv' = write_tasks(tool[c].tasks, outcome)
    /\ ToolEnds(c, "returned", tool[c].task)
    /\ UNCHANGED <<bridgeVars, blob_client, adds>>

\* update_task: tasks = read_tasks() and the search; ValueError when not found
UpdateRead(c) ==
    /\ tool[c].pc = "idle"
    /\ \E args \in UpdateArgs, outcome \in ReadOutcomes :
         LET tasks == read_tasks(outcome)
         IN IF HasId(tasks, args.task_id)
            THEN LET i == IndexOf(tasks, args.task_id)
                 IN tool' = [tool EXCEPT ![c] =
                       [IdleTool EXCEPT !.pc = "update_write",
                                        !.args = args,
                                        !.task = Updated(tasks[i], args),
                                        !.tasks = [tasks EXCEPT ![i] = Updated(tasks[i], args)]]]
            ELSE ToolEnds(c, "raised", NoTaskDict)
    /\ UNCHANGED <<bridgeVars, blob_client, tasks_csv, adds>>

\* update_task: write_tasks(tasks); return task
UpdateWrite(c) ==
    /\ tool[c].pc = "update_write"
    /\ \E outcome \in WriteOutcomes :
         tasks_csv' = write_tasks(tool[c].tasks, outcome)
    /\ ToolEnds(c, "returned", tool[c].task)
    /\ UNCHANGED <<bridgeVars, blob_client, adds>>

\* delete_task: tasks = read_tasks(), the search and tasks.pop(i); ValueError
\* when not found
DeleteRead(c) ==
    /\ tool[c].pc = "idle"
    /\ \E args \in DeleteArgs, outcome \in ReadOutcomes :
         LET tasks == read_tasks(outcome)
         IN IF HasId(tasks, args.task_id)
            THEN LET i == IndexOf(tasks, args.task_id)
                 IN tool' = [tool EXCEPT ![c] =
                       [IdleTool EXCEPT !.pc = "delete_write",
                                        !.args = args,
                                        !.task = tasks[i],
                                        !.tasks = Pop(tasks, i)]]
            ELSE ToolEnds(c, "raised", NoTaskDict)
    /\ UNCHANGED <<bridgeVars, blob_client, tasks_csv, adds>>

\* delete_task: write_tasks(tasks); return deleted_task
DeleteWrite(c) ==
    /\ tool[c].pc = "delete_write"
    /\ \E outcome \in WriteOutcomes :
         tasks_csv' = write_tasks(tool[c].tasks, outcome)
    /\ ToolEnds(c, "returned", tool[c].task)
    /\ UNCHANGED <<bridgeVars, blob_client, adds>>

\* the process after the import: no tasks.csv yet, the blob client
\* initialised or not (AzureWebJobsStorage set or not), the bridge untouched
ToolInit ==
    /\ mcp = "mcp_instance"
    /\ mcp_asgi_app = NoApp
    /\ mcp_init_lock = NoLock
    /\ lifespan_task = NoTask
    /\ lifespans = <<>>
    /\ call = [r \in ReqIds |-> NewCall]
    /\ calls = 0
    /\ blob_client \in BOOLEAN
    /\ tasks_csv = NoCsv
    /\ tool = [c \in CallerIds |-> IdleTool]
    /\ adds = 0

ToolNext ==
    \/ \E c \in CallerIds : AddRead(c)
    \/ \E c \in CallerIds : AddNextId(c)
    \/ \E c \in CallerIds : AddWrite(c)
    \/ \E c \in CallerIds : UpdateRead(c)
    \/ \E c \in CallerIds : UpdateWrite(c)
    \/ \E c \in CallerIds : DeleteRead(c)
    \/ \E c \in CallerIds : DeleteWrite(c)

ToolSpec == ToolInit /\ [][ToolNext]_vars

(***************************************************************************)
(* Vocabulary of the properties.                                           *)
(***************************************************************************)
Ready == mcp_asgi_app # NoApp

Attempts == 1..Len(lifespans)

\* request r ends in this step, after its wait for the response
FinishesRun(r) == call[r].pc \in {"resp_wait", "join"} /\ call'[r].pc = "done"

\* the handshake attempt that request r ran ended this way
AttemptOf(r, outcomes) ==
    /\ call[r].attempt # 0
    /\ lifespans[call[r].attempt].outcome \in outcomes

\* the chunks of these body messages, in order
RECURSIVE Concat(_)
Concat(ms) == IF ms = <<>> THEN <<>> ELSE ms[1].body \o Concat(Tail(ms))

\* the place of the first body message with more_body false, 0 when there is none
FirstComplete(ms) ==
    IF \E i \in 1..Len(ms) : ~ms[i].more_body
    THEN CHOOSE i \in 1..Len(ms) : ~ms[i].more_body /\ \A j \in 1..(i - 1) : ms[j].more_body
    ELSE 0

\* the response of request r is built from what send collected: no header
\* fails to decode and the awaited task did not raise
Collects(c) ==
    /\ HeadersDecode(c.response_headers)
    /\ ~(c.pc = "join" /\ c.asgi_task = "raised")


RECURSIVE Sum(_, _)
Sum(f, n) == IF n = 0 THEN 0 ELSE f[n] + Sum(f, n - 1)

\* the lifespan.startup messages delivered in this process
StartupsDelivered ==
    Sum([a \in Attempts |-> lifespans[a].startups], Len(lifespans))

(***************************************************************************)
(* C1                                                                      *)
(***************************************************************************)
\* C1, as stated: once a handshake attempt has succeeded, the number of runs
\* of initialize_mcp_app is 1 and at most one lifespan.startup message has
\* been delivered, whatever requests follow.
C1_RunsStayAtOne ==
    Ready => Len(lifespans) = 1 /\ StartupsDelivered <= 1

\* C1, amended: once a handshake attempt has succeeded, no step of any
\* request starts another run of initialize_mcp_app (the number of runs and
\* the lifespan task no longer change); that number is 1 when the first
\* attempt is the one that succeeded; and a run is never delivered
\* lifespan.startup more than once.
C1_NoHandshakeOnceReady ==
    [][ /\ Ready => /\ Len(lifespans') = Len(lifespans)
                    /\ lifespan_task' = lifespan_task
                    /\ mcp_asgi_app' = mcp_asgi_app
        /\ \A a \in 1..Len(lifespans') : lifespans'[a].startups <= 1
        /\ (Len(lifespans') >= 1 /\ lifespans'[1].outcome = "ready")
              => Len(lifespans') = 1 ]_vars

\* a request that came after readiness, or waited for the lock meanwhile, is
\* past the gate without an attempt of its own
C1_Witness ==
    /\ Ready
    /\ \E r \in ReqIds :
          /\ call[r].req.method = "POST"
          /\ call[r].attempt = 0
          /\ call[r].pc \in {"resp_wait", "join", "done"}

(***************************************************************************)
(* C2                                                                      *)
(***************************************************************************)
\* C2: a request whose handshake attempt timed out ends with an HTTP response
\* of status 500 whose body contains "timed out".
C2_TimeoutAnswers500 ==
    \A r \in ReqIds :
        (call[r].pc = "done" /\ AttemptOf(r, {"timed_out"}))
           => /\ call[r].result.kind = "response"
              /\ call[r].result.response.status_code = 500
              /\ Contains(call[r].result.response.body, Utf8Encode(TimedOutWords))

(***************************************************************************)
(* C3                                                                      *)
(***************************************************************************)
\* C3: no fault leaves mcp_endpoint as an exception: every request that ends,
\* ends with a response, and a request whose handshake attempt failed or
\* timed out, or whose scope could not be built, ends with the fixed error
\* response (status 500, the text of the fault, the CORS origin header only).
C3_FaultsBecomeErrorResponses ==
    \A r \in ReqIds :
        call[r].pc = "done"
           => /\ call[r].result.kind = "response"
              /\ AttemptOf(r, {"timed_out"})
                    => call[r].result.response = ErrorResponse(StartupTimedOutText)
              /\ AttemptOf(r, {"failed"})
                    => /\ call[r].result.response.status_code = 500
                       /\ call[r].result.response.headers = (ACAO :> Star)
                       /\ Contains(call[r].result.response.body,
                                   Utf8Encode(ErrorPrefix \o StartupFailedPrefix))
              /\ (Ready /\ call[r].req.method = "GET")
                    => call[r].result.response = ErrorResponse(EncodeErrorText)


(***************************************************************************)
(* C4                                                                      *)
(***************************************************************************)
\* C4: when a request ends with the response collected from send, and some
\* body message had more_body false, the body of the response is the chunks
\* up to and including the first such message, in order, and nothing more.
C4_BodyStopsAtFirstComplete ==
    [][ \A r \in ReqIds :
          (FinishesRun(r) /\ Collects(call[r]) /\ FirstComplete(call[r].sent) > 0)
             => call'[r].result.response.body =
                   Concat(SubSeq(call[r].sent, 1, FirstComplete(call[r].sent))) ]_vars

(***************************************************************************)
(* C5                                                                      *)
(***************************************************************************)
\* C5: when the deadline fired while the application was sending chunks with
\* more_body true, the response has the status of the start message and, as
\* its body, exactly the chunks sent before the deadline fired, in order.
C5_BodyIsChunksBeforeExpiry ==
    [][ \A r \in ReqIds :
          (FinishesRun(r) /\ Collects(call[r]) /\ call[r].sent_at_expiry >= 1)
             => /\ call'[r].result.response.status_code = call[r].start_status
                /\ call'[r].result.response.body =
                      Concat(SubSeq(call[r].sent, 1, call[r].sent_at_expiry)) ]_vars

(***************************************************************************)
(* C6                                                                      *)
(***************************************************************************)
\* C6: when the request's run of the inner application has raised, the
\* request ends with the fixed error response carrying the fault's message.
C6_AppFaultAnswers500 ==
    [][ \A r \in ReqIds :
          (FinishesRun(r) /\ call[r].asgi_task = "raised")
             => call'[r].result = Returned(ErrorResponse(AppErrorText)) ]_vars

(***************************************************************************)
(* C7                                                                      *)
(***************************************************************************)
\* the collected headers add to the CORS origin header: each decodes and none
\* is named Access-Control-Allow-Origin
Additive(hs) ==
    /\ HeadersDecode(hs)
    /\ \A i \in 1..Len(hs) : Utf8Decode(hs[i][1]) # ACAO

C8_BodyDeliveredOnce ==
    \A r \in ReqIds :
        LET c == call[r]
        IN  /\ c.receive_called <=> Len(c.received) >= 1
            /\ Len(c.received) >= 1
                  => c.received[1] = [type |-> "http.request", body |-> c.req.body,
                                      more_body |-> FALSE]
            /\ \A i \in 2..Len(c.received) :
                  /\ c.received[i].type = "http.disconnect"
                  /\ c.received[i].body = <<>>

\* an application has called receive three times for a request with a body
C8_Witness ==
    \E r \in ReqIds :
        /\ Len(call[r].received) = 3
        /\ call[r].req.body # <<>>
        /\ call[r].received[1].body = call[r].req.body

(***************************************************************************)
(* C9                                                                      *)
(***************************************************************************)
\* C9: the step that takes in an OPTIONS request ends it with the preflight
\* response (status 200, the three CORS headers, no body) and changes nothing
\* else: no lock, no attempt, no readiness, no task, no call of the inner
\* application; this in every state of the handshake and of the import.
C9_OptionsIsPreflight ==
    [][ \A r \in ReqIds :
          (call[r].pc = "idle" /\ call'[r].pc # "idle" /\ call'[r].req.method = "OPTIONS")
             => /\ call'[r].pc = "done"
                /\ call'[r].result.kind = "response"
                /\ call'[r].result.response.status_code = 200
                /\ call'[r].result.response.body = <<>>
                /\ DOMAIN call'[r].result.response.headers = {ACAO, ACAM, ACAH}
                /\ call'[r].result.response.headers[ACAO] = Star
                /\ call'[r].result.response.headers[ACAM] = AllowMethodsValue
                /\ call'[r].result.response.headers[ACAH] = AllowHeadersValue
                /\ call'[r].attempt = 0
                /\ call'[r].asgi_task = "none"
                /\ UNCHANGED <<mcp, mcp_asgi_app, mcp_init_lock, lifespan_task,
                               lifespans, calls>> ]_vars

\* an OPTIONS request has been answered while another request's handshake is
\* in progress and holds the lock
C9_Witness ==
    \E r, o \in ReqIds :
        /\ call[o].pc = "init_wait"
        /\ mcp_init_lock.locked
        /\ call[r].pc = "done"
        /\ call[r].req.method = "OPTIONS"
        /\ call[r].result.response = PreflightResponse

(***************************************************************************)
(* C10                                                                     *)
(***************************************************************************)
\* a handshake attempt of request r ends in this step with an exception
AttemptFails(r) == call[r].pc = "init_wait" /\ call'[r].result.kind = "raised"

\* request r passes the gate in this step: it arrives and is not queued, or
\* it is given the lock
PassesGate(r) ==
    /\ call[r].pc \in {"idle", "lock_wait"}
    /\ call'[r].pc \notin {"idle", "lock_wait"}
    /\ call'[r].req.method # "OPTIONS"
    /\ mcp # None

\* C10: a failed handshake is not terminal.  When an attempt ends by timeout
\* or by startup-failed, mcp_asgi_app stays unset and the lock is released; a
\* request that passes the gate while mcp_asgi_app is unset starts a fresh
\* attempt (a new run with nothing received and nothing complete), however
\* many attempts failed before; and an attempt whose wait ends with startup
\* complete and not failed sets mcp_asgi_app to its application.
C10_FailedHandshakeIsRetried ==
    [][ \A r \in ReqIds :
          /\ AttemptFails(r)
                => /\ mcp_asgi_app' = NoApp
                   /\ ~mcp_init_lock'.locked
                   /\ lifespans'[call[r].attempt].outcome \in {"timed_out", "failed"}
          /\ (PassesGate(r) /\ mcp_asgi_app = NoApp)
                => /\ call'[r].pc = "init_wait"
                   /\ Len(lifespans') = Len(lifespans) + 1
                   /\ call'[r].attempt = Len(lifespans')
                   /\ lifespan_task' = Len(lifespans')
                   /\ ~lifespans'[Len(lifespans')].startup_complete
                   /\ ~lifespans'[Len(lifespans')].startup_failed
                   /\ ~lifespans'[Len(lifespans')].received_startup
                   /\ lifespans'[Len(lifespans')].task = "running"
          /\ (/\ call[r].pc = "init_wait"
              /\ call'[r].pc # "init_wait"
              /\ lifespans[call[r].attempt].startup_complete
              /\ ~lifespans[call[r].attempt].startup_failed)
                => /\ mcp_asgi_app' = lifespans[call[r].attempt].raw_app
                   /\ mcp_asgi_app' # NoApp
                   /\ call'[r].result.kind # "raised" ]_vars

\* the second attempt has succeeded after the first one failed or timed out
C10_Witness ==
    /\ mcp_asgi_app = 2
    /\ lifespans[1].outcome \in {"timed_out", "failed"}
    /\ lifespans[2].outcome = "ready"

(***************************************************************************)
(* C11                                                                     *)
(***************************************************************************)
\* C11: every response of a request that ran the inner application carries
\* Access-Control-Allow-Origin with the value "*", whatever headers the
\* application sent in its start message, one named
\* Access-Control-Allow-Origin included.
C11_CorsOriginAlwaysStar ==
    \A r \in ReqIds :
        (call[r].pc = "done" /\ call[r].result.kind = "response")
           => /\ ACAO \in DOMAIN call[r].result.response.headers
              /\ call[r].result.response.headers[ACAO] = Star

(***************************************************************************)
(* C12                                                                     *)
(***************************************************************************)
\* C12: under fair scheduling, every request that is not a preflight and has
\* been handed to mcp_endpoint eventually ends with a response: whether it
\* waits for the lock, for the handshake, for the response or for the
\* cancelled task.
C12_EveryRequestIsAnswered ==
    \A r \in ReqIds :
        (call[r].pc \in {"lock_wait", "init_wait", "resp_wait", "join"})
           ~> (call[r].pc = "done" /\ call[r].result.kind = "response")

C14_AddTaskAppends ==
    [][ \A c \in CallerIds :
          (/\ tool[c].pc = "add_write"
           /\ tool'[c].pc = "idle"
           /\ tasks_csv = tool[c].before)
             => /\ tasks_csv'.exists
                /\ TasksOf(tasks_csv') =
                      Append(TasksOf(tool[c].before), tool'[c].returned) ]_vars

(***************************************************************************)
(* C15                                                                     *)
(***************************************************************************)
\* C15: the stored tasks have pairwise distinct ids, whatever add_task,
\* update_task and delete_task calls were made and however the callers'
\* reads and writes were interleaved.
C15_StoredIdsAreDistinct ==
    \A i, j \in 1..Len(tasks_csv.rows) :
        i # j => StrToInt(tasks_csv.rows[i].id) # StrToInt(tasks_csv.rows[j].id)

(***************************************************************************)
(* C16                                                                     *)
(***************************************************************************)
\* the requests whose run of initialize_mcp_app is in progress
InHandshake(cs) == {r \in ReqIds : cs[r].pc = "init_wait"}

\* request r, which waited for the lock, is given it in this step
WaiterAcquires(r) == call[r].pc = "lock_wait" /\ call'[r].pc # "lock_wait"

\* C16, as stated: a request that waited for the lock performs no handshake
\* of its own when it is given the lock.
C16_WaitersNeverInitialize ==
    [][ \A r \in ReqIds :
          WaiterAcquires(r) => Len(lifespans') = Len(lifespans) ]_vars

\* C16, amended: at most one run of initialize_mcp_app is in progress at any
\* time, and it is the lock holder's; a request starts a run only when it
\* holds the lock and finds mcp_asgi_app unset; a request that waited and
\* is given the lock after a handshake succeeded performs none and goes on
\* to its response; one that is given the lock after the holder's handshake
\* failed or timed out performs the retry.
C16_OneHandshakeAtATime ==
    [][ /\ Cardinality(InHandshake(call')) <= 1
        /\ InHandshake(call') # {} => mcp_init_lock'.locked
        /\ Len(lifespans') > Len(lifespans)
              => /\ ~Ready
                 /\ ~mcp_init_lock.locked
                 /\ Len(lifespans') = Len(lifespans) + 1
        /\ \A r \in ReqIds :
              /\ (WaiterAcquires(r) /\ Ready)
                    => /\ Len(lifespans') = Len(lifespans)
                       /\ call'[r].attempt = 0
                       /\ call'[r].pc \in {"resp_wait", "done"}
                       /\ ~mcp_init_lock'.locked
              /\ (WaiterAcquires(r) /\ ~Ready)
                    => /\ call'[r].pc = "init_wait"
                       /\ call'[r].attempt = Len(lifespans) + 1 ]_vars

\* two requests arrived before readiness; the first performed the handshake,
\* the second waited for the lock and is past it with no attempt of its own
C16_Witness ==
    \E r, w \in ReqIds :
        /\ call[r].attempt = 1
        /\ lifespans[1].outcome = "ready"
        /\ call[w].waited
        /\ call[w].attempt = 0
        /\ call[w].pc \in {"resp_wait", "join"}

(***************************************************************************)
(* C17                                                                     *)
(***************************************************************************)
\* the ASGI task of request r is created in this step
Launches(r) == call[r].asgi_task = "none" /\ call'[r].asgi_task # "none"

\* C17: a request's ASGI task exists only while mcp_asgi_app is set; it is
\* created only by a request that is past the gate, with mcp_asgi_app set
\* no later than the step that creates it and, when the request ran a
\* handshake attempt itself, only if that attempt succeeded; a request whose
\* attempt failed or timed out ends without a task.
C17_NoRunBeforeReady ==
    [][ \A r \in ReqIds :
          /\ call'[r].asgi_task # "none" => mcp_asgi_app' # NoApp
          /\ call'[r].pc \in {"idle", "lock_wait", "init_wait"}
                => call'[r].asgi_task = "none"
          /\ Launches(r)
                => /\ mcp_asgi_app' # NoApp
                   /\ lifespans'[mcp_asgi_app'].outcome = "ready"
                   /\ call'[r].pc = "resp_wait"
                   /\ call'[r].attempt # 0 => call'[r].attempt = mcp_asgi_app'
          /\ AttemptFails(r)
                => /\ ~Launches(r)
                   /\ call'[r].pc = "done" ]_vars

\* the first request's attempt failed or timed out and it ended without a
\* task; the second request's attempt succeeded and its task is running
C17_Witness ==
    \E r, q \in ReqIds :
        /\ call[r].pc = "done"
        /\ AttemptOf(r, {"timed_out", "failed"})
        /\ call[q].attempt = mcp_asgi_app
        /\ call[q].asgi_task = "running"

(***************************************************************************)
(* C18                                                                     *)
(***************************************************************************)
\* C18: whether the wait ended by completion or by the deadline, a request
\* ends only when its ASGI task has ended.  A handler that resumes with the
\* task still running asks it to cancel and awaits it, without a result yet;
\* it stays there while the task runs; and when the task ends by letting
\* the CancelledError through, the request ends with the response collected
\* (its status, its body), not with the error response.
C18_TaskEndsBeforeResponse ==
    [][ \A r \in ReqIds :
          /\ FinishesRun(r)
                => call[r].asgi_task \in {"returned", "raised", "cancelled"}
          /\ (call[r].pc = "resp_wait" /\ call'[r].pc # "resp_wait"
                 /\ call[r].asgi_task = "running")
                => /\ call'[r].pc = "join"
                   /\ call'[r].asgi_task = "cancelling"
                   /\ call'[r].result = NoResult
          /\ (call[r].pc = "join" /\ AppRuns(call[r]))
                => call'[r].pc = "join"
          /\ (FinishesRun(r) /\ call[r].asgi_task = "cancelled"
                 /\ HeadersDecode(call[r].response_headers))
                => /\ call'[r].result.kind = "response"
                   /\ call'[r].result.response.status_code = call[r].response_status
                   /\ call'[r].result.response.body = call[r].response_body ]_vars

\* completion was signalled while the task was still running; the handler
\* asked it to cancel and the task has acknowledged
C18_Witness ==
    \E r \in ReqIds :
        /\ call[r].pc = "join"
        /\ call[r].response_complete
        /\ ~call[r].expired
        /\ call[r].asgi_task = "cancelled"

(***************************************************************************)
(* C19                                                                     *)
(***************************************************************************)
\* C19, as stated: in the whole life of the process, retried attempts
\* included, at most one lifespan.startup message is delivered.
C19_OneStartupPerProcess == StartupsDelivered <= 1

\* C19, amended: each run of initialize_mcp_app delivers lifespan.startup to
\* its application at most once, on the first call of its lifespan_receive;
\* a later call delivers nothing and waits for ever.  The process delivers
\* at most one per attempt, so at most one when the first attempt succeeds.
C19_OneStartupPerAttempt ==
    [][ /\ StartupsDelivered' <= Len(lifespans')
        /\ \A a \in 1..Len(lifespans') :
              /\ lifespans'[a].startups <= 1
              /\ lifespans'[a].received_startup <=> lifespans'[a].startups = 1
        /\ \A a \in 1..Len(lifespans) :
              /\ lifespans'[a].startups > lifespans[a].startups
                    => ~lifespans[a].received_startup
              /\ (lifespans[a].task = "running" /\ lifespans'[a].task = "waiting")
                    => /\ lifespans[a].received_startup
                       /\ lifespans'[a].startups = lifespans[a].startups
              /\ lifespans[a].task = "waiting"
                    => /\ lifespans'[a].task = "waiting"
                       /\ lifespans'[a].startups = lifespans[a].startups
        /\ (Len(lifespans') >= 1 /\ lifespans'[1].outcome = "ready")
              => StartupsDelivered' <= 1 ]_vars

\* two attempts were made and each one's application was delivered
\* lifespan.startup
C19_Witness ==
    /\ Len(lifespans) = 2
    /\ lifespans[1].startups = 1
    /\ lifespans[2].startups = 1

(***************************************************************************)
(* C20                                                                     *)
(***************************************************************************)
\* the calls of mcp.http_app(): one in each run of initialize_mcp_app
HttpAppCalls == Len(lifespans)

\* C20: over any sequence of requests, retries of a failed or timed-out
\* handshake included, mcp.http_app() is called at most once.
C20_HandleConstructedOnce == HttpAppCalls <= 1

(***************************************************************************)
(* C21                                                                     *)
(***************************************************************************)
\* the inner application of request s calls receive or send in this step
Callback(s) ==
    \/ Len(call'[s].received) = Len(call[s].received) + 1
    \/ Len(call'[s].sent) = Len(call[s].sent) + 1
    \/ call[s].start_status = 0 /\ call'[s].start_status # 0

\* C21: the state of a request is its own: the first event receive returns to
\* a request's application carries that request's body; a call of receive or
\* send by one request's application changes nothing of any other request;
\* and the response collected for a request has the status and the headers of
\* the start message passed to its own send (200 and the CORS origin header
\* when there was none) and, as its body, the chunks passed to its own send,
\* under every interleaving of the requests.
C21_RequestStateIsOwn ==
    [][ \A r \in ReqIds :
          /\ (Len(call[r].received) = 0 /\ Len(call'[r].received) = 1)
                => call'[r].received[1] =
                      [type |-> "http.request", body |-> call[r].req.body,
                       more_body |-> FALSE]
          /\ \A s \in ReqIds \ {r} : Callback(s) => call'[r] = call[r]
          /\ (FinishesRun(r) /\ Collects(call[r]))
                => /\ call'[r].result.kind = "response"
                   /\ call'[r].result.response.status_code =
                         (IF call[r].start_status # 0 THEN call[r].start_status ELSE 200)
                   /\ call'[r].result.response.headers =
                         MergeHeaders((ACAO :> Star), call[r].start_headers)
                   /\ call'[r].result.response.body = Concat(call[r].sent) ]_vars

\* two POST requests with different bodies overlapped after readiness: the
\* later one has been answered with its own status 404 and empty body, while
\* the earlier one, still waiting, has been delivered its own request body
\* and holds a start message of status 200
C21_Witness ==
    /\ Ready
    /\ call[1].pc = "resp_wait"
    /\ call[1].start_status = 200
    /\ Len(call[1].received) = 1
    /\ call[1].received[1].body = call[1].req.body
    /\ call[2].pc = "done"
    /\ call[2].req.method = "POST"
    /\ call[2].req.body # call[1].req.body
    /\ call[2].result.kind = "response"
    /\ call[2].result.response.status_code = 404
    /\ call[2].result.response.body = <<>>

(***************************************************************************)
(* C22                                                                     *)
(***************************************************************************)
\* C22: the lock is held exactly while a handshake attempt is in progress: the
\* step in which an attempt fails or times out releases it and leaves
\* readiness unset; an attempt in progress can always end; the requests
\* waiting are those of the lock's queue, and whenever the lock is free the
\* first of them can take it; and a waiter that takes the lock with readiness
\* unset runs an attempt of its own.
C22_GateHeldOnlyDuringHandshake ==
    [][ /\ mcp_init_lock'.locked <=> InHandshake(call') # {}
        /\ \A r \in ReqIds :
              /\ AttemptFails(r) => ~mcp_init_lock'.locked /\ ~Ready'
              /\ call[r].pc = "init_wait" => ENABLED (InitResume(r) \/ InitTimeout(r))
              /\ call[r].pc = "lock_wait"
                    <=> \E i \in 1..Len(mcp_init_lock.waiters) : mcp_init_lock.waiters[i] = r
              /\ (/\ ~mcp_init_lock.locked
                  /\ mcp_init_lock.waiters # <<>>
                  /\ Head(mcp_init_lock.waiters) = r) => ENABLED AcquireLock(r)
              /\ (WaiterAcquires(r) /\ ~Ready)
                    => /\ call'[r].pc = "init_wait"
                       /\ call'[r].attempt = Len(lifespans) + 1
                       /\ lifespan_task' = Len(lifespans) + 1
                       /\ mcp_init_lock'.locked ]_vars

\* the first attempt has timed out while the second request was waiting for
\* the lock: the lock is free, readiness is unset and the waiter is next
C22_Witness ==
    /\ Len(lifespans) = 1
    /\ lifespans[1].outcome = "timed_out"
    /\ call[1].pc = "done"
    /\ call[1].result.kind = "raised"
    /\ ~Ready
    /\ call[2].pc = "lock_wait"
    /\ ~mcp_init_lock.locked
    /\ mcp_init_lock.waiters = <<2>>

(***************************************************************************)
(* C23                                                                     *)
(***************************************************************************)
\* the attempts whose lifespan task has not ended: it runs, or it is suspended
\* in the wait of lifespan_receive
LifespansAlive == {a \in Attempts : lifespans[a].task \in {"running", "waiting"}}

\* C23: at most one lifespan task is alive in the process: when an attempt
\* has failed or timed out, its lifespan task has ended by the time the next
\* attempt's task is created.
C23_OneLifespanAlive == Cardinality(LifespansAlive) <= 1

(***************************************************************************)
(* C24                                                                     *)
(***************************************************************************)
\* C24: readiness is set only by an attempt that saw its own startup complete
\* in time: the step that assigns mcp_asgi_app is the resumption of the
\* request that runs the attempt, it assigns the raw_app of that attempt, and
\* the application of that attempt has by then passed lifespan.startup.complete
\* and no lifespan.startup.failed to lifespan_send, the attempt's timer not
\* having fired; the attempt behind mcp_asgi_app is always one that ended
\* ready; and a message to lifespan_send of an attempt that has timed out or
\* failed changes neither mcp_asgi_app nor how that attempt ended.
C24_ReadinessOnlyByOwnStartup ==
    [][ /\ mcp_asgi_app' # mcp_asgi_app
              => \E r \in ReqIds :
                    /\ call[r].pc = "init_wait"
                    /\ call'[r].pc # "init_wait"
                    /\ mcp_asgi_app' = lifespans[call[r].attempt].raw_app
                    /\ lifespans[call[r].attempt].raw_app = call[r].attempt
                    /\ lifespans[call[r].attempt].complete_sent
                    /\ ~lifespans[call[r].attempt].failed_sent
                    /\ lifespans[call[r].attempt].outcome = "pending"
                    /\ lifespans'[call[r].attempt].outcome = "ready"
        /\ Ready' => lifespans'[mcp_asgi_app'].outcome = "ready"
        /\ \A a \in Attempts :
              lifespans[a].outcome \in {"timed_out", "failed"}
                 => /\ lifespans'[a].outcome = lifespans[a].outcome
                    /\ mcp_asgi_app' # lifespans[a].raw_app
                    /\ lifespans'[a] # lifespans[a] => mcp_asgi_app' = mcp_asgi_app ]_vars

\* the first attempt timed out and its application passed
\* lifespan.startup.complete afterwards; readiness was set by the second
\* attempt, whose application completed its startup in time
C24_Witness ==
    /\ Len(lifespans) = 2
    /\ lifespans[1].outcome = "timed_out"
    /\ lifespans[1].complete_sent
    /\ lifespans[1].startup_complete
    /\ ~lifespans[1].startup_failed
    /\ lifespans[2].outcome = "ready"
    /\ mcp_asgi_app = lifespans[2].raw_app

(***************************************************************************)
(* C25                                                                     *)
(***************************************************************************)
\* the run of request r's application has returned while the handler was still
\* waiting, and no body message with more_body false was passed to send
ReturnedIncomplete(c) ==
    /\ c.pc = "resp_wait"
    /\ c.asgi_task = "returned"
    /\ FirstComplete(c.sent) = 0

\* C25: when the application's run returns without a body message with
\* more_body false, the step in which it returns does not end the request;
\* the handler then neither cancels the task nor awaits it; and the request
\* ends only once the deadline has fired, with the status and headers of the
\* start message and the chunks passed to send (status 200, no body and the
\* CORS origin header alone when nothing was sent).
C25_ReturnWithoutCompletionWaitsForDeadline ==
    [][ \A r \in ReqIds :
          /\ (call[r].asgi_task = "running" /\ call'[r].asgi_task = "returned")
                => /\ call'[r].pc = call[r].pc
                   /\ call'[r].result = NoResult
          /\ ReturnedIncomplete(call[r])
                => /\ call'[r].pc \in {"resp_wait", "done"}
                   /\ call'[r].asgi_task \in {"returned", "none"}
                   /\ call'[r].pc = "done" => call[r].expired
          /\ (ReturnedIncomplete(call[r]) /\ call'[r].pc = "done" /\ Collects(call[r]))
                => /\ call'[r].result.kind = "response"
                   /\ call'[r].result.response.status_code =
                         (IF call[r].start_status = 0 THEN 200 ELSE call[r].start_status)
                   /\ call'[r].result.response.headers =
                         MergeHeaders((ACAO :> Star), call[r].start_headers)
                   /\ call'[r].result.response.body = Concat(call[r].sent)
                   /\ call[r].start_status = 0
                         => call'[r].result.response =
                               HttpResponse(<<>>, 200, (ACAO :> Star)) ]_vars

\* an application has sent a start message of status 404 and one chunk with
\* more_body true and has returned; the request is still unanswered, the
\* deadline has fired since, and no cancellation was issued
C25_Witness ==
    \E r \in ReqIds :
        /\ ReturnedIncomplete(call[r])
        /\ call[r].expired
        /\ call[r].start_status = 404
        /\ call[r].sent = <<[body |-> <<104>>, more_body |-> TRUE]>>
        /\ call[r].result = NoResult

(***************************************************************************)
(* C26                                                                     *)
(***************************************************************************)
\* C26: when the import failed (mcp is None) it stays failed, and the step
\* that takes in a request other than OPTIONS ends it with status 500, the
\* body "MCP server not initialized" and the CORS origin header alone, and
\* changes nothing else: no lock is created, no attempt is made, no
\* application is called; so it is for every request of the process.
C26_FailedImportAnswers500 ==
    [][ mcp = None
          => /\ mcp' = None
             /\ ~mcp_init_lock'.created
             /\ lifespans' = <<>>
             /\ lifespan_task' = NoTask
             /\ mcp_asgi_app' = NoApp
             /\ calls' = 0
             /\ \A r \in ReqIds :
                   (call[r].pc = "idle" /\ call'[r].pc # "idle"
                                        /\ call'[r].req.method # "OPTIONS")
                      => /\ call'[r].pc = "done"
                         /\ call'[r].result.kind = "response"
                         /\ call'[r].result.response.status_code = 500
                         /\ call'[r].result.response.body = Utf8Encode(NotInitializedText)
                         /\ call'[r].result.response.headers = (ACAO :> Star)
                         /\ call'[r].attempt = 0
                         /\ call'[r].asgi_task = "none" ]_vars

\* the import failed; a POST and, after it, a GET have both been answered
\* with the fixed 500 response
C26_Witness ==
    /\ mcp = None
    /\ call[1].pc = "done"
    /\ call[1].req.method = "POST"
    /\ call[1].result.response.status_code = 500
    /\ call[1].result.response.body = Utf8Encode(NotInitializedText)
    /\ call[2].pc = "done"
    /\ call[2].req.method = "GET"
    /\ call[2].result.response = call[1].result.response

====
